---- MODULE Spec2Model ----
(***************************************************************************)
(* A model of student_code.py: the directed-graph classes                  *)
(* VersatileDigraph (node set + adjacency dict), SortableDigraph           *)
(* (Kahn top_sort), TraversableDigraph (dfs, bfs) and DAG (add_edge        *)
(* guarded by _has_path).                                                  *)
(*                                                                         *)
(* A graph object is the pair (nodes, edges): `nodes` is the Python set    *)
(* self.nodes, `edges` is the Python dict self.edges, a function whose     *)
(* DOMAIN is the dict's key set.  The iteration order of a Python set is   *)
(* implementation-defined, so every operation that iterates a set takes    *)
(* the order as an input: `nord` is an iteration order of self.nodes and   *)
(* `ord[n]` is an iteration order of get_neighbors(n).                     *)
(***************************************************************************)
EXTENDS Integers, Sequences, FiniteSets

\* Nodes are drawn from 1..MaxNode; at most MaxEdges distinct edges are stored.
MaxNode == 3
MaxEdges == 4

Node == 1..MaxNode

VARIABLES kind, nodes, edges, last, ret

vars == <<kind, nodes, edges, last, ret>>

\* The graph object as a value.
G == [nodes |-> nodes, edges |-> edges]

----------------------------------------------------------------------------
(* Sequence helpers standing for Python list / deque primitives.           *)

Range(s) == {s[i] : i \in 1..Len(s)}

\* reversed(list)
Reverse(s) == [i \in 1..Len(s) |-> s[Len(s) + 1 - i]]

\* all iteration orders of a set
RECURSIVE Perms(_)
Perms(S) ==
  IF S = {} THEN {<<>>}
  ELSE UNION {{<<x>> \o p : p \in Perms(S \ {x})} : x \in S}

----------------------------------------------------------------------------
(* VersatileDigraph                                                        *)

\* __init__
EmptyGraph == [nodes |-> {}, edges |-> [n \in {} |-> {}]]

\* add_node: self.nodes.add(node); create edges[node] if the key is absent
add_node(g, node) ==
  [nodes |-> g.nodes \cup {node},
   edges |-> [n \in DOMAIN g.edges \cup {node} |->
                IF n \in DOMAIN g.edges THEN g.edges[n] ELSE {}]]

\* a wrong add_edge: the end node is not added
add_edge_no_end(g, u, v) ==
  LET g1 == add_node(g, u)
  IN  [g1 EXCEPT !.edges[u] = @ \cup {v}]

\* add_edge: add_node(u); add_node(v); edges[u].add(v)
add_edge(g, u, v) ==
  LET g1 == add_node(g, u)
      g2 == add_node(g1, v)
  IN  [g2 EXCEPT !.edges[u] = @ \cup {v}]

\* get_neighbors: self.edges.get(node, set()), as a value
get_neighbors(g, node) ==
  IF node \in DOMAIN g.edges THEN g.edges[node] ELSE {}

\* The iteration orders of every adjacency set: sequences f of length k
\* with f[n] an order of get_neighbors(g, n).
RECURSIVE OrdersUpTo(_, _)
OrdersUpTo(g, k) ==
  IF k = 0 THEN {<<>>}
  ELSE {Append(f, p) : f \in OrdersUpTo(g, k - 1),
                       p \in Perms(get_neighbors(g, k))}

IterOrders(g) == OrdersUpTo(g, MaxNode)

\* number of stored edges
EdgeCount(g) ==
  Cardinality({e \in Node \X Node : e[2] \in get_neighbors(g, e[1])})

----------------------------------------------------------------------------
(* SortableDigraph.top_sort (Kahn's algorithm)                             *)

\* a wrong in-degree count: an edge from a node to itself is not counted
in_degree_no_self(g) ==
  [n \in g.nodes |->
     Cardinality({m \in g.nodes \ {n} : n \in get_neighbors(g, m)})]

\* lines 95-98: in_degree[n] = number of nodes whose adjacency set holds n
\* (adjacency sets hold distinct nodes, so the two nested loops count each
\* edge into n once; in_degree[neighbor] is defined because every neighbor
\* is a node, see C9_KeysAreNodes)
in_degree_of(g) ==
  [n \in g.nodes |-> Cardinality({m \in g.nodes : n \in get_neighbors(g, m)})]

\* lines 111-114: for neighbor in get_neighbors(current): decrement, and
\* enqueue the neighbor when its in-degree reaches 0
RECURSIVE relax(_, _, _)
relax(nbrs, in_degree, queue) ==
  IF nbrs = <<>> THEN [in_degree |-> in_degree, queue |-> queue]
  ELSE LET neighbor == Head(nbrs)
           d == [in_degree EXCEPT ![neighbor] = @ - 1]
       IN  relax(Tail(nbrs), d,
                 IF d[neighbor] = 0 THEN Append(queue, neighbor) ELSE queue)

\* lines 107-114: while queue: popleft, append to top_order, relax
RECURSIVE top_loop(_, _, _, _)
top_loop(ord, queue, in_degree, top_order) ==
  IF queue = <<>> THEN top_order
  ELSE LET current == Head(queue)
           r == relax(ord[current], in_degree, Tail(queue))
       IN  top_loop(ord, r.queue, r.in_degree, Append(top_order, current))

\* a wrong queue initialisation: in-degree <= 1 instead of == 0
initial_queue_le1(nord, in_degree) ==
  SelectSeq(nord, LAMBDA n : in_degree[n] <= 1)

\* lines 101-104: the zero-in-degree nodes, in the node set's iteration order
initial_queue(nord, in_degree) ==
  SelectSeq(nord, LAMBDA n : in_degree[n] = 0)

top_sort(g, nord, ord) ==
  LET in_degree == in_degree_of(g)
  IN  top_loop(ord, initial_queue(nord, in_degree), in_degree, <<>>)

----------------------------------------------------------------------------
(* TraversableDigraph.dfs / bfs.  A generator is modelled by the sequence  *)
(* of the values it yields when it is run to exhaustion.                   *)

\* line 147-149, wrong: the neighbors are pushed without reversed()
dfs_push_forward(nbrs, visited) ==
  SelectSeq(nbrs, LAMBDA x : x \notin visited)

\* lines 147-149: for neighbor in reversed(list(neighbors)):
\*                    if neighbor not in visited: stack.append(neighbor)
dfs_push(nbrs, visited) ==
  SelectSeq(Reverse(nbrs), LAMBDA x : x \notin visited)

\* line 144, wrong: the pushed neighbors are marked visited as well (as bfs does)
dfs_mark_pushed(visited, current_node, pushed) ==
  visited \cup {current_node} \cup Range(pushed)

\* line 144: visited.add(current_node)
dfs_mark(visited, current_node, pushed) ==
  visited \cup {current_node}

\* lines 141-149: while stack: pop; if not visited: mark, yield, push
RECURSIVE dfs_loop(_, _, _, _)
dfs_loop(ord, stack, visited, out) ==
  IF stack = <<>> THEN out
  ELSE LET current_node == stack[Len(stack)]
           rest == SubSeq(stack, 1, Len(stack) - 1)
       IN  IF current_node \notin visited
           THEN LET pushed == dfs_push(ord[current_node],
                                       visited \cup {current_node})
                IN  dfs_loop(ord, rest \o pushed,
                             dfs_mark(visited, current_node, pushed),
                             Append(out, current_node))
           ELSE dfs_loop(ord, rest, visited, out)

dfs(g, ord, start) ==
  IF start \notin g.nodes THEN <<>>
  ELSE dfs_loop(ord, <<start>>, {}, <<>>)

\* lines 173-176: for neighbor in neighbors: if not visited: mark, enqueue
RECURSIVE bfs_scan(_, _, _)
bfs_scan(nbrs, visited, queue) ==
  IF nbrs = <<>> THEN [visited |-> visited, queue |-> queue]
  ELSE LET neighbor == Head(nbrs)
       IN  IF neighbor \notin visited
           THEN bfs_scan(Tail(nbrs), visited \cup {neighbor},
                         Append(queue, neighbor))
           ELSE bfs_scan(Tail(nbrs), visited, queue)

\* lines 170-176: while queue: popleft, yield, scan the neighbors
RECURSIVE bfs_loop(_, _, _, _)
bfs_loop(ord, queue, visited, out) ==
  IF queue = <<>> THEN out
  ELSE LET current_node == Head(queue)
           r == bfs_scan(ord[current_node], visited, Tail(queue))
       IN  bfs_loop(ord, r.queue, r.visited, Append(out, current_node))

\* lines 161-168: visited = {start}; queue = deque([start]); queue.popleft()
\* The popleft leaves the queue empty before the loop is entered.
bfs(g, ord, start) ==
  IF start \notin g.nodes THEN <<>>
  ELSE bfs_loop(ord, Tail(<<start>>), {start}, <<>>)

----------------------------------------------------------------------------
(* DAG                                                                     *)

\* lines 204-209: scan the neighbors of the current node; return True at end
RECURSIVE path_scan(_, _, _, _)
path_scan(nbrs, visited, queue, end) ==
  IF nbrs = <<>> THEN [found |-> FALSE, visited |-> visited, queue |-> queue]
  ELSE LET neighbor == Head(nbrs)
       IN  IF neighbor = end
           THEN [found |-> TRUE, visited |-> visited, queue |-> queue]
           ELSE IF neighbor \notin visited
           THEN path_scan(Tail(nbrs), visited \cup {neighbor},
                          Append(queue, neighbor), end)
           ELSE path_scan(Tail(nbrs), visited, queue, end)

\* lines 202-211: while queue: popleft, scan; return False when exhausted
RECURSIVE path_loop(_, _, _, _)
path_loop(ord, queue, visited, end) ==
  IF queue = <<>> THEN FALSE
  ELSE LET r == path_scan(ord[Head(queue)], visited, Tail(queue), end)
       IN  r.found \/ path_loop(ord, r.queue, r.visited, end)

\* a wrong _has_path: the start == end test is missing
has_path_irreflexive(g, ord, start, end) ==
  path_loop(ord, <<start>>, {start}, end)

\* a wrong _has_path: only the direct neighbors of start are examined
has_path_direct(g, ord, start, end) ==
  start = end \/ end \in get_neighbors(g, start)

_has_path(g, ord, start, end) ==
  IF start = end THEN TRUE
  ELSE path_loop(ord, <<start>>, {start}, end)

\* a wrong DAG.add_edge: the endpoints are added before the path check
DAG_add_edge_nodes_first(g, ord, u, v) ==
  LET g2 == add_node(add_node(g, u), v)
  IN  IF _has_path(g, ord, v, u)
      THEN [raised |-> TRUE, g |-> g2]
      ELSE [raised |-> FALSE, g |-> add_edge(g, u, v)]

\* DAG.add_edge: raise if _has_path(v, u), else VersatileDigraph.add_edge
DAG_add_edge(g, ord, u, v) ==
  IF _has_path(g, ord, v, u)
  THEN [raised |-> TRUE, g |-> g]
  ELSE [raised |-> FALSE, g |-> add_edge(g, u, v)]

----------------------------------------------------------------------------
(* The state machine.  `kind` is the class of the graph object.  `last`    *)
(* records the most recent call: its name, its arguments, whether it       *)
(* raised, the sequence it produced and the iteration orders it observed.  *)
(* `ret` is the object most recently returned by get_neighbors, as held by *)
(* the caller: an alias of the dict entry edges[key], or a set of its own. *)

NoOrd == [n \in Node |-> <<>>]

Call(op, u, v, raised, out, ord) ==
  [op |-> op, u |-> u, v |-> v, raised |-> raised, out |-> out, ord |-> ord]

NoRet == [held |-> FALSE, alias |-> FALSE, key |-> 0, own |-> {}]

Init ==
  /\ kind \in {"TraversableDigraph", "DAG"}
  /\ nodes = EmptyGraph.nodes
  /\ edges = EmptyGraph.edges
  /\ last = Call("init", 0, 0, FALSE, <<>>, NoOrd)
  /\ ret = NoRet

\* the exploration stops growing the graph at MaxEdges stored edges
Room(u, v) == EdgeCount(G) < MaxEdges \/ v \in get_neighbors(G, u)

AddNode(n) ==
  LET g == add_node(G, n)
  IN  /\ nodes' = g.nodes
      /\ edges' = g.edges
      /\ last' = Call("add_node", n, 0, FALSE, <<>>, NoOrd)
      /\ UNCHANGED <<kind, ret>>

\* VersatileDigraph.add_edge on a graph that is not a DAG object
AddEdge(u, v) ==
  /\ kind = "TraversableDigraph"
  /\ Room(u, v)
  /\ LET g == add_edge(G, u, v)
     IN  /\ nodes' = g.nodes
         /\ edges' = g.edges
  /\ last' = Call("add_edge", u, v, FALSE, <<>>, NoOrd)
  /\ UNCHANGED <<kind, ret>>

\* DAG.add_edge: on ValueError only the call record changes
DAGAddEdge(u, v) ==
  /\ kind = "DAG"
  /\ Room(u, v)
  /\ \E ord \in IterOrders(G) :
       LET r == DAG_add_edge(G, ord, u, v)
       IN  /\ nodes' = r.g.nodes
           /\ edges' = r.g.edges
           /\ last' = Call("add_edge", u, v, r.raised, <<>>, NoOrd)
  /\ UNCHANGED <<kind, ret>>

TopSort ==
  /\ \E nord \in Perms(nodes) : \E ord \in IterOrders(G) :
       last' = Call("top_sort", 0, 0, FALSE, top_sort(G, nord, ord), NoOrd)
  /\ UNCHANGED <<kind, nodes, edges, ret>>

Dfs(start) ==
  /\ \E ord \in IterOrders(G) :
       last' = Call("dfs", start, 0, FALSE, dfs(G, ord, start), ord)
  /\ UNCHANGED <<kind, nodes, edges, ret>>

Bfs(start) ==
  /\ \E ord \in IterOrders(G) :
       last' = Call("bfs", start, 0, FALSE, bfs(G, ord, start), ord)
  /\ UNCHANGED <<kind, nodes, edges, ret>>

\* get_neighbors: dict.get hands out the stored set object itself when the
\* key is present, and a new empty set otherwise
GetNeighbors(n) ==
  /\ ret' = [held |-> TRUE, alias |-> n \in DOMAIN edges, key |-> n, own |-> {}]
  /\ last' = Call("get_neighbors", n, 0, FALSE, <<>>, NoOrd)
  /\ UNCHANGED <<kind, nodes, edges>>

\* the caller calls .add(x) on the object get_neighbors returned
CallerAdd(x) ==
  /\ ret.held
  /\ ret.alias => Room(ret.key, x)
  /\ IF ret.alias
     THEN /\ edges' = [edges EXCEPT ![ret.key] = @ \cup {x}]
          /\ ret' = ret
     ELSE /\ ret' = [ret EXCEPT !.own = @ \cup {x}]
          /\ edges' = edges
  /\ last' = Call("set.add", ret.key, x, FALSE, <<>>, NoOrd)
  /\ UNCHANGED <<kind, nodes>>

\* the caller calls .discard(x) on the object get_neighbors returned
CallerDiscard(x) ==
  /\ ret.held
  /\ IF ret.alias
     THEN /\ edges' = [edges EXCEPT ![ret.key] = @ \ {x}]
          /\ ret' = ret
     ELSE /\ ret' = [ret EXCEPT !.own = @ \ {x}]
          /\ edges' = edges
  /\ last' = Call("set.discard", ret.key, x, FALSE, <<>>, NoOrd)
  /\ UNCHANGED <<kind, nodes>>

\* construction and insertion only
Next ==
  \/ \E n \in Node : AddNode(n)
  \/ \E u \in Node, v \in Node : AddEdge(u, v)
  \/ \E u \in Node, v \in Node : DAGAddEdge(u, v)

Spec == Init /\ [][Next]_vars

\* insertion and topological sort
NextSort ==
  \/ \E n \in Node : AddNode(n)
  \/ \E u \in Node, v \in Node : AddEdge(u, v)
  \/ \E u \in Node, v \in Node : DAGAddEdge(u, v)
  \/ TopSort

SpecSort == Init /\ [][NextSort]_vars

\* insertion and traversal
NextTraverse ==
  \/ \E n \in Node : AddNode(n)
  \/ \E u \in Node, v \in Node : AddEdge(u, v)
  \/ \E u \in Node, v \in Node : DAGAddEdge(u, v)
  \/ \E start \in Node : Dfs(start)
  \/ \E start \in Node : Bfs(start)

SpecTraverse == Init /\ [][NextTraverse]_vars

\* insertion, get_neighbors, and a caller that mutates what it was handed
NextAlias ==
  \/ \E n \in Node : AddNode(n)
  \/ \E u \in Node, v \in Node : AddEdge(u, v)
  \/ \E u \in Node, v \in Node : DAGAddEdge(u, v)
  \/ \E n \in Node : GetNeighbors(n)
  \/ \E x \in Node : CallerAdd(x)
  \/ \E x \in Node : CallerDiscard(x)

SpecAlias == Init /\ [][NextAlias]_vars

----------------------------------------------------------------------------
(* Graph-theoretic vocabulary of the properties, defined on the stored     *)
(* adjacency alone and independently of the algorithms above.              *)

Out(n) == IF n \in DOMAIN edges THEN edges[n] ELSE {}

RECURSIVE Closure(_)
Closure(S) ==
  LET T == S \cup UNION {Out(n) : n \in S}
  IN  IF T = S THEN S ELSE Closure(T)

\* the nodes reachable from n by a path of at least one edge
Descendants(n) == Closure(Out(n))

Acyclic == \A n \in Node : n \notin Descendants(n)

\* the nodes on a cycle or reachable from a node on a cycle
Tainted ==
  {n \in Node : \E c \in Node :
     c \in Descendants(c) /\ (n = c \/ n \in Descendants(c))}

\* the graph is exactly one 3-cycle a->b, b->c, c->a
IsThreeCycle ==
  \E a \in Node, b \in Node, c \in Node :
    /\ a # b /\ b # c /\ a # c
    /\ nodes = {a, b, c}
    /\ Out(a) = {b} /\ Out(b) = {c} /\ Out(c) = {a}

NoDup(s) == \A i \in 1..Len(s), j \in 1..Len(s) : s[i] = s[j] => i = j

\* the nodes within k edges of u
RECURSIVE Ball(_, _)
Ball(u, k) ==
  IF k = 0 THEN {u}
  ELSE LET B == Ball(u, k - 1) IN B \cup UNION {Out(n) : n \in B}

\* the BFS layer of n, for n reachable from u
Layer(u, n) ==
  CHOOSE k \in 0..MaxNode : n \in Ball(u, k) /\ (k = 0 \/ n \notin Ball(u, k - 1))

\* pre-order of the recursive depth-first search that visits the neighbors
\* of each node left to right in the order ord
RECURSIVE RecVisit(_, _, _), RecChildren(_, _, _)
RecVisit(ord, n, out) == RecChildren(ord, ord[n], Append(out, n))
RecChildren(ord, nbrs, out) ==
  IF nbrs = <<>> THEN out
  ELSE RecChildren(ord, Tail(nbrs),
                   IF Head(nbrs) \in Range(out) THEN out
                   ELSE RecVisit(ord, Head(nbrs), out))

RecursiveDfs(ord, start) == RecVisit(ord, start, <<>>)

----------------------------------------------------------------------------
(* Properties                                                              *)

\* C1: a DAG object never stores a directed cycle (nor a self-loop), after
\* any sequence of add_node and add_edge calls, accepted or rejected.
C1_DagAcyclic == kind = "DAG" => Acyclic

\* a DAG in which an edge closing a path of two or more edges was rejected
C1_Witness ==
  /\ kind = "DAG" /\ last.op = "add_edge" /\ last.raised
  /\ last.u # last.v
  /\ last.u \notin Out(last.v)
  /\ last.u \in Descendants(last.v)

\* C2: DAG.add_edge(u, v) called when v already reaches u (or u = v) raises,
\* and the node set and every adjacency set are what they were before.
C2_RejectedUnmodified ==
  [][(/\ kind = "DAG"
      /\ last'.op = "add_edge"
      /\ (last'.u = last'.v \/ last'.u \in Descendants(last'.v)))
     => (last'.raised /\ nodes' = nodes /\ edges' = edges)]_vars

\* a rejected insertion whose endpoint was not a node and still is not
C2_Witness ==
  /\ kind = "DAG" /\ last.op = "add_edge" /\ last.raised
  /\ last.u \notin nodes
  /\ nodes # {}

\* C3: DAG.add_edge(u, v) raises exactly when u = v or u is reachable from
\* v; otherwise it returns with u and v nodes and v a neighbor of u.
C3_OutcomeByReachability ==
  [][(kind = "DAG" /\ last'.op = "add_edge")
     => /\ last'.raised <=>
             (last'.u = last'.v \/ last'.u \in Descendants(last'.v))
        /\ ~last'.raised =>
             /\ last'.u \in nodes' /\ last'.v \in nodes'
             /\ last'.u \in DOMAIN edges'
             /\ last'.v \in edges'[last'.u]]_vars

\* an accepted insertion u -> v into a DAG where v already had descendants
C3_Witness ==
  /\ kind = "DAG" /\ last.op = "add_edge" /\ ~last.raised
  /\ last.v \in Out(last.u)
  /\ Descendants(last.v) # {}

\* C4: on an acyclic graph top_sort returns every node exactly once, with u
\* before v for every edge u -> v.
C4_TopSortOrder ==
  (last.op = "top_sort" /\ Acyclic)
  => /\ NoDup(last.out)
     /\ Range(last.out) = nodes
     /\ \A i \in 1..Len(last.out), j \in 1..Len(last.out) :
          last.out[j] \in Out(last.out[i]) => i < j

\* top_sort of an acyclic graph with three nodes and at least two edges
C4_Witness ==
  /\ last.op = "top_sort" /\ Acyclic
  /\ Len(last.out) = 3
  /\ EdgeCount(G) >= 2

\* C5: on a graph with a cycle top_sort returns, each exactly once, the
\* nodes that are neither on a cycle nor reachable from one; the result is
\* shorter than the node count, and empty for a bare 3-cycle.
C5_TopSortPartial ==
  (kind = "TraversableDigraph" /\ last.op = "top_sort" /\ ~Acyclic)
  => /\ NoDup(last.out)
     /\ Range(last.out) = nodes \ Tainted
     /\ Len(last.out) < Cardinality(nodes)
     /\ IsThreeCycle => last.out = <<>>

\* a non-empty partial result that omits a node lying only downstream of a cycle
C5_Witness ==
  /\ last.op = "top_sort" /\ ~Acyclic
  /\ Len(last.out) >= 1
  /\ \E n \in Tainted : n \notin Descendants(n)

\* C6: bfs(start) from a node of the graph omits start and yields every
\* other node reachable from start exactly once, in non-decreasing layer.
C6_BfsYieldsReachable ==
  (last.op = "bfs" /\ last.u \in nodes)
  => /\ last.u \notin Range(last.out)
     /\ NoDup(last.out)
     /\ Range(last.out) = Descendants(last.u) \ {last.u}
     /\ \A i \in 1..Len(last.out), j \in 1..Len(last.out) :
          i < j => Layer(last.u, last.out[i]) <= Layer(last.u, last.out[j])

\* C7: dfs(start) yields start first and then exactly the nodes reachable
\* from start, each once; for a start that is not a node it yields nothing.
C7_DfsReachable ==
  last.op = "dfs"
  => IF last.u \in nodes
     THEN /\ NoDup(last.out)
          /\ Range(last.out) = {last.u} \cup Descendants(last.u)
          /\ last.out[1] = last.u
     ELSE last.out = <<>>

\* dfs over three nodes from a start that lies on a cycle
C7_Witness ==
  /\ last.op = "dfs" /\ last.u \in nodes
  /\ Len(last.out) = 3
  /\ last.u \in Descendants(last.u)

\* C8: adding to or removing from the set get_neighbors returned leaves the
\* node set and every adjacency set unchanged.
C8_ReturnedSetIsCopy ==
  [][last'.op \in {"set.add", "set.discard"}
     => (nodes' = nodes /\ edges' = edges)]_vars

\* C9: the adjacency keys are the node set, and every adjacency set holds
\* nodes only, for the base graph and the DAG alike.
C9_KeysAreNodes ==
  /\ DOMAIN edges = nodes
  /\ \A n \in DOMAIN edges : edges[n] \subseteq nodes

\* an edge inserted between two distinct nodes
C9_Witness ==
  /\ last.op = "add_edge" /\ ~last.raised
  /\ last.u # last.v
  /\ last.v \in Out(last.u)

\* C10: the sequence dfs yields is the pre-order of the recursive
\* depth-first search under the same iteration orders.
C10_DfsIsRecursivePreorder ==
  (last.op = "dfs" /\ last.u \in nodes)
  => last.out = RecursiveDfs(last.ord, last.u)

\* dfs where the first neighbor of start leads to the second, so the stack
\* holds the second neighbor twice
C10_Witness ==
  /\ last.op = "dfs" /\ last.u \in nodes
  /\ Len(last.ord[last.u]) >= 2
  /\ last.ord[last.u][2] \in Out(last.ord[last.u][1])
  /\ last.ord[last.u][1] # last.u

====
